---- MODULE Spec2Model ----
(***************************************************************************)
(* plot_projection.py: load a weekly projection dataset, sum the four      *)
(* metrics per week, draw them on a 2x2 grid and save the figure.          *)
(*                                                                         *)
(* The process is modelled statement by statement (pc), over a small file  *)
(* system (the directories on the way to the output path and the file at   *)
(* the output path).  pandas and matplotlib calls are modelled by what     *)
(* they do to the table, the figure and the file system.                   *)
(***************************************************************************)
EXTENDS Integers, Sequences, FiniteSets, TLC

VARIABLES
    input,      \* args.input_file: the file name and what is on disk there
    output,     \* args.output
    dirs,       \* file system: the directories that exist
    outFile,    \* file system: what is at the output path
    pc,         \* the statement the process is at
    df,         \* main's df / plot_projections' df
    weekly,     \* plot_projections' weekly
    fig,        \* the axes of the figure, in axes.flat order
    it,         \* how many turns of the plotting loop are done
    error,      \* the exception that ended the run ("none" while there is none)
    status,     \* the exit status of the process once pc = "exited"
    stdout,     \* what the process printed
    run,        \* which invocation of the program this is
    events,     \* history: the statements this run has completed, in order
    reader,     \* history: the pandas reader load_dataset called
    touched,    \* history: this run opened the output file for writing
    startFile,  \* history: outFile when this run started
    startDirs,  \* history: dirs when this run started
    prev        \* history: how the previous run ended

vars == <<input, output, dirs, outFile, pc, df, weekly, fig, it, error, status,
          stdout, run, events, reader, touched, startFile, startDirs, prev>>

----------------------------------------------------------------------------
(* Bounds *)

\* longest input table of the aggregation specification
MaxRows == 2
\* number of times the program is run on the same arguments
MaxRuns == 2

\* week identifiers and metric values of the enumerated tables
Weeks == {1, 2}
Nums == {5, 10}

----------------------------------------------------------------------------
(* Program constants *)

METRICS == <<"Venda", "Alvo", "Reposicao", "Estoque">>
TITLES == <<"Venda proj", "Alvo proj", "Reposição proj", "Estoque proj">>

\* The columns named by the module docstring and the --help text.
AllColumns == {"FILIAL", "SKU", "Semana", "Venda", "Alvo", "Reposicao", "Estoque"}

MetricSet == {METRICS[j] : j \in 1..Len(METRICS)}

\* A missing week cell.  groupby's default dropna=True leaves such rows out.
NaN == -1

----------------------------------------------------------------------------
(* Tables *)

\* A DataFrame: its columns, its rows in file order, and the columns whose
\* dtype is object (their cells are strings, not numbers).
EmptyDF == [columns |-> {}, rows |-> <<>>, object |-> {}]

NoWeekly == [index |-> <<>>, data |-> [m \in MetricSet |-> <<>>]]

\* df[c] raises KeyError for a column the table does not have.
HasColumn(d, c) == c \in d.columns

\* groupby("Semana"): the group keys in order of first appearance, rows with a
\* missing key dropped.
GroupKeys(rows) ==
    LET F[n \in 0..Len(rows)] ==
            IF n = 0 THEN <<>>
            ELSE IF rows[n].Semana = NaN
                    \/ \E j \in 1..Len(F[n-1]) : F[n-1][j] = rows[n].Semana
                 THEN F[n-1]
                 ELSE Append(F[n-1], rows[n].Semana)
    IN  F[Len(rows)]

\* Insert x into the ascending sequence s.
Insert(s, x) ==
    LET below == SelectSeq(s, LAMBDA y : y < x)
        above == SelectSeq(s, LAMBDA y : y >= x)
    IN  below \o <<x>> \o above

\* sort_index(): ascending order of the index.
SortIndex(keys) ==
    LET F[n \in 0..Len(keys)] ==
            IF n = 0 THEN <<>> ELSE Insert(F[n-1], keys[n])
    IN  F[Len(keys)]

\* .sum() of column m over the rows of group w, in row order: addition for a
\* numeric column, concatenation for an object column of strings.
GroupSum(d, w, m) ==
    LET rows == d.rows
        F[n \in 0..Len(rows)] ==
            IF n = 0 THEN (IF m \in d.object THEN "" ELSE 0)
            ELSE IF rows[n].Semana # w THEN F[n-1]
                 ELSE IF m \in d.object THEN F[n-1] \o rows[n][m]
                                        ELSE F[n-1] + rows[n][m]
    IN  F[Len(rows)]

\* Faulty variant: the groups are left in order of first appearance.
WeeklyUnsorted(d) ==
    LET idx == GroupKeys(d.rows)
    IN  [index |-> idx,
         data  |-> [m \in MetricSet |->
                       [j \in 1..Len(idx) |-> GroupSum(d, idx[j], m)]]]

\* Faulty variant: the last row of a group stands for the group (.last() for .sum()).
WeeklyLast(d) ==
    LET idx == SortIndex(GroupKeys(d.rows))
        LastOf(w) == CHOOSE n \in 1..Len(d.rows) :
                        /\ d.rows[n].Semana = w
                        /\ \A k \in n+1..Len(d.rows) : d.rows[k].Semana # w
    IN  [index |-> idx,
         data  |-> [m \in MetricSet |->
                       [j \in 1..Len(idx) |-> d.rows[LastOf(idx[j])][m]]]]

\* df.groupby("Semana")[METRICS].sum().sort_index()
Weekly(d) ==
    LET idx == SortIndex(GroupKeys(d.rows))
    IN  [index |-> idx,
         data  |-> [m \in MetricSet |->
                       [j \in 1..Len(idx) |-> GroupSum(d, idx[j], m)]]]

\* Faulty variant: no column is looked up; absent columns read as whatever
\* the rows hold.
MissingColumnsNone(d) == {}

\* Faulty variant: only the group key is looked up (the [METRICS] selection
\* is left out).
MissingColumnsWeekOnly(d) == {c \in {"Semana"} : ~HasColumn(d, c)}

\* The columns plot_projections needs and the table lacks.
MissingColumns(d) == {c \in {"Semana"} \cup MetricSet : ~HasColumn(d, c)}

----------------------------------------------------------------------------
(* Paths and the file system *)

\* A pathlib.Path: anchor "/" for an absolute path, "" for a relative one.
RelPath(parts) == [anchor |-> "", parts |-> parts]
AbsPath(parts) == [anchor |-> "/", parts |-> parts]

\* The working directory of the process.
Cwd == AbsPath(<<"home", "user">>)

\* Faulty variant: the path is printed as given.
ResolveAsGiven(p) == p

\* Path.resolve(): the absolute path (no symlinks or ".." in the modelled paths).
Resolve(p) == IF p.anchor = "/" THEN p ELSE AbsPath(Cwd.parts \o p.parts)

\* Path.parent
Parent(p) ==
    IF p.parts = <<>> THEN p
    ELSE [anchor |-> p.anchor, parts |-> SubSeq(p.parts, 1, Len(p.parts) - 1)]

\* The directories from the root down to the absolute path q, q included.
Ancestors(q) == [j \in 1..Len(q.parts) + 1 |-> AbsPath(SubSeq(q.parts, 1, j - 1))]

\* The operating system resolves a relative path against the working directory.
OnDisk(p) == IF p.anchor = "/" THEN p ELSE AbsPath(Cwd.parts \o p.parts)

\* Faulty variant: mkdir(exist_ok=True) without parents=True makes the last directory only.
MkdirTargetsNoParents(q, existing) ==
    IF OnDisk(q) \in existing THEN <<>> ELSE <<OnDisk(q)>>

\* mkdir(parents=True, exist_ok=True): the directories it has to make, top down;
\* the ones that exist are accepted as they are.
MkdirTargets(q, existing) ==
    SelectSeq(Ancestors(OnDisk(q)), LAMBDA a : a \notin existing)

\* The directories that exist whatever the run: the root down to Cwd.
BaseDirs == {Ancestors(Cwd)[j] : j \in 1..Len(Cwd.parts) + 1}

\* Output paths: the default of --output, the one of the usage example, a
\* nested relative one and an absolute one.
DefaultOutput == RelPath(<<"outputs", "projecoes.png">>)
OutputPaths ==
    { DefaultOutput,
      RelPath(<<"grafico.png">>),
      RelPath(<<"out", "semana", "g.png">>),
      AbsPath(<<"srv", "g.png">>) }

\* What can be at the output path.
NoFile == [kind |-> "none", grid |-> <<>>]
OldFile == [kind |-> "old", grid |-> <<>>]

----------------------------------------------------------------------------
(* Input files *)

\* File names, character by character.
FileNames ==
    { <<"d", ".", "c", "s", "v">>,
      <<"D", ".", "C", "S", "V">>,
      <<"d", ".", "x", "l", "s", "x">>,
      <<"d", ".", "t", "x", "t">>,
      <<"d">>,
      <<".", "c", "s", "v">> }

\* PurePath.suffix: from the last dot of the name on, "" when the name has no
\* dot, starts with its only dot or ends with a dot.
Suffix(name) ==
    LET dots == {j \in 1..Len(name) : name[j] = "."}
        last == CHOOSE j \in dots : \A k \in dots : k <= j
    IN  IF dots = {} THEN <<>>
        ELSE IF last = 1 \/ last = Len(name) THEN <<>>
        ELSE SubSeq(name, last, Len(name))

\* str.lower() on the characters of the modelled names.
LowerChar(c) ==
    CASE c = "C" -> "c"
      [] c = "S" -> "s"
      [] c = "V" -> "v"
      [] c = "D" -> "d"
      [] OTHER -> c

Lower(s) == [j \in 1..Len(s) |-> LowerChar(s[j])]

\* Faulty variant: the suffix is compared as written.
ReaderCaseSensitive(name) ==
    IF Suffix(name) = <<".", "c", "s", "v">> THEN "read_csv" ELSE "read_excel"

\* load_dataset's dispatch on the extension.
Reader(name) ==
    IF Lower(Suffix(name)) = <<".", "c", "s", "v">> THEN "read_csv" ELSE "read_excel"

\* Faulty variant: a file that cannot be read loads as an empty table.
ReadFileLenient(file, rd) ==
    IF file.exists /\ ((rd = "read_csv") <=> (file.format = "csv"))
    THEN [error |-> "none", table |-> file.table]
    ELSE [error |-> "none", table |-> EmptyDF]

\* pd.read_csv / pd.read_excel on the file: a missing file raises
\* FileNotFoundError, content of the other format fails to parse.
ReadFile(file, rd) ==
    IF ~file.exists THEN [error |-> "FileNotFoundError", table |-> EmptyDF]
    ELSE IF rd = "read_csv" /\ file.format # "csv"
         THEN [error |-> "UnicodeDecodeError", table |-> EmptyDF]
    ELSE IF rd = "read_excel" /\ file.format # "xlsx"
         THEN [error |-> "ValueError", table |-> EmptyDF]
    ELSE [error |-> "none", table |-> file.table]

\* The tables of the pipeline specification: the end-to-end example, weeks out
\* of order with a missing week cell, a header without rows, and a table whose
\* Venda column holds text.
Row(f, s, w, a, b, c, e) ==
    [FILIAL |-> f, SKU |-> s, Semana |-> w,
     Venda |-> a, Alvo |-> b, Reposicao |-> c, Estoque |-> e]

SampleTables ==
    << [columns |-> AllColumns, object |-> {},
        rows |-> << Row(1, "A", 1, 10, 12, 2, 50), Row(2, "B", 1, 5, 6, 1, 20) >>],
       [columns |-> AllColumns, object |-> {},
        rows |-> << Row(1, "A", 2, 10, 5, 5, 10), Row(1, "B", NaN, 5, 5, 5, 5),
                    Row(2, "A", 1, 5, 10, 5, 10), Row(2, "B", 2, 5, 5, 10, 10) >>],
       [columns |-> AllColumns, object |-> {}, rows |-> <<>>],
       [columns |-> AllColumns, object |-> {"Venda"},
        rows |-> << Row(1, "A", 1, "10", 12, 2, 50), Row(2, "B", 1, "abc", 6, 1, 20),
                    Row(1, "A", 2, "7", 1, 1, 1) >>] >>

\* The table without column c ("" drops nothing).  The cells of a dropped
\* column stay in the rows and are never read: the column is looked up first.
DropColumn(t, c) == [t EXCEPT !.columns = @ \ {c}, !.object = @ \ {c}]

----------------------------------------------------------------------------
(* The figure *)

\* plt.subplots(2, 2, ...): the grid of the figure.
NRows == 2
NCols == 2

NewAxes == [lines |-> <<>>, title |-> "", xlabel |-> "", ylabel |-> ""]

\* axes.flat: the axes of the grid, row by row.
Subplots == [j \in 1..NRows * NCols |-> NewAxes]

\* One turn of the loop: ax.plot(weekly.index, weekly[metric], marker="o") and
\* the title and labels of the axes.
PlotOn(ax, w, metric, title) ==
    [lines  |-> Append(ax.lines, [x |-> w.index, y |-> w.data[metric], marker |-> "o"]),
     title  |-> title,
     xlabel |-> "Semana",
     ylabel |-> "Quantidade"]

\* zip(axes.flat, METRICS, TITLES) stops with its shortest argument.
Min(a, b) == IF a <= b THEN a ELSE b
Turns(f) == Min(Len(f), Min(Len(METRICS), Len(TITLES)))

\* The image of the figure: its axes laid out on the grid, top row first.
Render(f) == [r \in 1..NRows |-> [c \in 1..NCols |-> f[(r - 1) * NCols + c]]]

\* Faulty variant: the image is written after what the file already holds.
SavedImageAppended(old, f) == [kind |-> "png", grid |-> old.grid \o Render(f)]

\* What a completed fig.savefig leaves at the path: the file is opened for
\* writing, which empties it, and the image is written.
SavedImage(old, f) == [kind |-> "png", grid |-> Render(f)]

\* What a write that fails after n rows of the grid leaves at the path.
Truncated(f, n) == [kind |-> "truncated", grid |-> SubSeq(Render(f), 1, n)]

----------------------------------------------------------------------------
(* The process *)

\* An exception nobody catches ends the interpreter with status 1; main
\* returning ends it with status 0.
ExitStatus(e) == IF e = "none" THEN 0 ELSE 1

Raise(e) ==
    /\ error' = e
    /\ pc' = "exited"
    /\ status' = ExitStatus(e)

NoPrev == [ran |-> FALSE, error |-> "none", file |-> NoFile]

\* The files the program can be given: a name, whether it exists, the format
\* of its content and the table it holds.
InputFiles(t) ==
    [name : FileNames, exists : BOOLEAN, format : {"csv", "xlsx"}, table : {t}]

\* The state of a freshly started process.
Fresh ==
    /\ pc = "main"
    /\ df = EmptyDF
    /\ weekly = NoWeekly
    /\ fig = <<>>
    /\ it = 0
    /\ error = "none"
    /\ status = 0
    /\ stdout = <<>>
    /\ events = <<>>
    /\ reader = "none"
    /\ touched = FALSE

Init ==
    /\ \E n \in 1..Len(SampleTables), c \in {""} \cup {"Semana"} \cup MetricSet :
          input \in InputFiles(DropColumn(SampleTables[n], c))
    /\ output \in OutputPaths
    /\ \E n \in 0..Len(MkdirTargets(Parent(output), BaseDirs)) :
          dirs = BaseDirs \cup
                   {MkdirTargets(Parent(output), BaseDirs)[j] : j \in 1..n}
    /\ outFile \in IF OnDisk(Parent(output)) \in dirs THEN {NoFile, OldFile}
                                                      ELSE {NoFile}
    /\ Fresh
    /\ run = 1
    /\ startFile = outFile
    /\ startDirs = dirs
    /\ prev = NoPrev

\* main, lines 68-80: the arguments are parsed.
ParseArgs ==
    /\ pc = "main"
    /\ pc' = "load"
    /\ UNCHANGED <<input, output, dirs, outFile, df, weekly, fig, it, error,
                   status, stdout, run, events, reader, touched, startFile,
                   startDirs, prev>>

\* df = load_dataset(args.input_file)
LoadDataset ==
    /\ pc = "load"
    /\ reader' = Reader(input.name)
    /\ LET got == ReadFile(input, Reader(input.name))
       IN  IF got.error # "none"
           THEN /\ Raise(got.error)
                /\ UNCHANGED <<df, events>>
           ELSE /\ df' = got.table
                /\ events' = Append(events, "load_dataset")
                /\ pc' = "groupby"
                /\ UNCHANGED <<error, status>>
    /\ UNCHANGED <<input, output, dirs, outFile, weekly, fig, it, stdout, run,
                   touched, startFile, startDirs, prev>>

\* plot_projections is entered and weekly is computed: a column the table
\* lacks raises KeyError.
GroupBySum ==
    /\ pc = "groupby"
    /\ IF MissingColumns(df) # {}
       THEN /\ Raise("KeyError")
            /\ events' = Append(events, "plot_projections")
            /\ UNCHANGED weekly
       ELSE /\ weekly' = Weekly(df)
            /\ events' = events \o <<"plot_projections", "weekly">>
            /\ pc' = "subplots"
            /\ UNCHANGED <<error, status>>
    /\ UNCHANGED <<input, output, dirs, outFile, df, fig, it, stdout, run,
                   reader, touched, startFile, startDirs, prev>>

\* fig, axes = plt.subplots(2, 2, figsize=(12, 8), sharex=True)
MakeSubplots ==
    /\ pc = "subplots"
    /\ fig' = Subplots
    /\ it' = 0
    /\ events' = Append(events, "subplots")
    /\ pc' = "loop"
    /\ UNCHANGED <<input, output, dirs, outFile, df, weekly, error, status,
                   stdout, run, reader, touched, startFile, startDirs, prev>>

\* One turn of the for loop.
PlotMetric ==
    /\ pc = "loop"
    /\ it < Turns(fig)
    /\ fig' = [fig EXCEPT ![it + 1] =
                  PlotOn(@, weekly, METRICS[it + 1], TITLES[it + 1])]
    /\ it' = it + 1
    /\ events' = Append(events, "plot")
    /\ UNCHANGED <<input, output, dirs, outFile, pc, df, weekly, error, status,
                   stdout, run, reader, touched, startFile, startDirs, prev>>

\* The loop is over: fig.tight_layout()
TightLayout ==
    /\ pc = "loop"
    /\ it >= Turns(fig)
    /\ events' = Append(events, "tight_layout")
    /\ pc' = "mkdir"
    /\ UNCHANGED <<input, output, dirs, outFile, df, weekly, fig, it, error,
                   status, stdout, run, reader, touched, startFile, startDirs,
                   prev>>

\* output.parent.mkdir(parents=True, exist_ok=True): every missing directory
\* is made, or the making of one of them fails and the ones above it stay.
Mkdir ==
    /\ pc = "mkdir"
    /\ LET todo == MkdirTargets(Parent(output), dirs)
       IN  \/ /\ dirs' = dirs \cup {todo[j] : j \in 1..Len(todo)}
              /\ events' = Append(events, "mkdir")
              /\ pc' = "savefig"
              /\ UNCHANGED <<error, status>>
           \/ \E n \in 0..Len(todo) - 1 :
                 /\ dirs' = dirs \cup {todo[j] : j \in 1..n}
                 /\ Raise("PermissionError")
                 /\ UNCHANGED events
    /\ UNCHANGED <<input, output, outFile, df, weekly, fig, it, stdout, run,
                   reader, touched, startFile, startDirs, prev>>

\* fig.savefig(output): the file is opened at the path and the image is
\* written to it.  The open can fail, which leaves the path as it was; the
\* write can fail part way, which leaves a truncated file, or no file when
\* the library removes the file it had created.
Savefig ==
    /\ pc = "savefig"
    /\ \/ /\ OnDisk(Parent(output)) \in dirs
          /\ outFile' = SavedImage(outFile, fig)
          /\ touched' = TRUE
          /\ events' = Append(events, "savefig")
          /\ pc' = "print"
          /\ UNCHANGED <<error, status>>
       \/ /\ Raise(IF OnDisk(Parent(output)) \in dirs THEN "PermissionError"
                                                      ELSE "FileNotFoundError")
          /\ UNCHANGED <<outFile, touched, events>>
       \/ /\ OnDisk(Parent(output)) \in dirs
          /\ \E n \in 0..NRows - 1 : outFile' = Truncated(fig, n)
          /\ touched' = TRUE
          /\ Raise("OSError")
          /\ UNCHANGED events
       \/ /\ OnDisk(Parent(output)) \in dirs
          /\ outFile = NoFile
          /\ outFile' = NoFile
          /\ touched' = TRUE
          /\ Raise("OSError")
          /\ UNCHANGED events
    /\ UNCHANGED <<input, output, dirs, df, weekly, fig, it, stdout, run,
                   reader, startFile, startDirs, prev>>

\* print(f"Gráfico salvo em: {args.output.resolve()}") and the return of main.
PrintSaved ==
    /\ pc = "print"
    /\ stdout' = Append(stdout, [text |-> "Gráfico salvo em: ", path |-> Resolve(output)])
    /\ events' = Append(events, "print")
    /\ Raise("none")
    /\ UNCHANGED <<input, output, dirs, outFile, df, weekly, fig, it, run,
                   reader, touched, startFile, startDirs, prev>>

\* The program is run again with the same arguments on the file system the
\* run before left.
RunAgain ==
    /\ pc = "exited"
    /\ run < MaxRuns
    /\ run' = run + 1
    /\ prev' = [ran |-> TRUE, error |-> error, file |-> outFile]
    /\ startFile' = outFile
    /\ startDirs' = dirs
    /\ pc' = "main"
    /\ df' = EmptyDF
    /\ weekly' = NoWeekly
    /\ fig' = <<>>
    /\ it' = 0
    /\ error' = "none"
    /\ status' = 0
    /\ stdout' = <<>>
    /\ events' = <<>>
    /\ reader' = "none"
    /\ touched' = FALSE
    /\ UNCHANGED <<input, output, dirs, outFile>>

Next ==
    \/ ParseArgs
    \/ LoadDataset
    \/ GroupBySum
    \/ MakeSubplots
    \/ PlotMetric
    \/ TightLayout
    \/ Mkdir
    \/ Savefig
    \/ PrintSaved
    \/ RunAgain

Spec == Init /\ [][Next]_vars

----------------------------------------------------------------------------
(* The aggregation alone, over every table within the bounds *)

AggRows ==
    {Row(1, "A", w, a, b, c, e) : w \in Weeks \cup {NaN}, a \in Nums, b \in Nums,
                                  c \in Nums, e \in Nums}

AggTables ==
    UNION {[columns : {AllColumns}, object : {{}}, rows : [1..n -> AggRows]] :
              n \in 0..MaxRows}

InitAgg ==
    /\ input \in [name : {<<"d", ".", "c", "s", "v">>}, exists : {TRUE},
                  format : {"csv"}, table : AggTables]
    /\ output = DefaultOutput
    /\ dirs = BaseDirs
    /\ outFile = NoFile
    /\ Fresh
    /\ run = 1
    /\ startFile = outFile
    /\ startDirs = dirs
    /\ prev = NoPrev

NextAgg == ParseArgs \/ LoadDataset \/ GroupBySum

SpecAgg == InitAgg /\ [][NextAgg]_vars

----------------------------------------------------------------------------
(* Vocabulary of the properties *)

\* This run has completed statement e.
Did(e) == \E j \in 1..Len(events) : events[j] = e

\* The week values that occur in the rows.
WeeksIn(rows) == {rows[n].Semana : n \in 1..Len(rows)} \ {NaN}

\* The arithmetic sum of f over the index set S.
RECURSIVE SetSum(_, _)
SetSum(S, f) ==
    IF S = {} THEN 0
    ELSE LET n == CHOOSE n \in S : TRUE IN f[n] + SetSum(S \ {n}, f)

\* The table with its rows in the order given by the permutation p.
RowOrders(n) == {p \in [1..n -> 1..n] : \A a, b \in 1..n : p[a] = p[b] => a = b}
Reordered(d, p) == [d EXCEPT !.rows = [j \in 1..Len(d.rows) |-> d.rows[p[j]]]]

RequiredColumns == {"Semana", "Venda", "Alvo", "Reposicao", "Estoque"}

\* The directory the output file goes in, as an absolute path.
OutputDir ==
    LET abs == IF output.anchor = "/" THEN output.parts
               ELSE <<"home", "user">> \o output.parts
    IN  SubSeq(abs, 1, Len(abs) - 1)

----------------------------------------------------------------------------
(* Properties *)

\* C1: once weekly is computed, for every week w of the input and every metric
\* m, weekly holds for (w, m) the arithmetic sum of m over the rows of week w,
\* and every reordering of the input rows aggregates to the same table.
C1_SumPerWeek ==
    Did("weekly") =>
        /\ \A w \in WeeksIn(df.rows), m \in MetricSet :
              \E j \in 1..Len(weekly.index) :
                 /\ weekly.index[j] = w
                 /\ weekly.data[m][j] =
                       SetSum({n \in 1..Len(df.rows) : df.rows[n].Semana = w},
                              [n \in 1..Len(df.rows) |-> df.rows[n][m]])
        /\ \A p \in RowOrders(Len(df.rows)) : Weekly(Reordered(df, p)) = weekly

\* C1 witness: two rows of week 1 with sales 10 and 5 have been summed to 15.
C1_Witness ==
    /\ Did("weekly")
    /\ Len(df.rows) = 2
    /\ df.rows[1].Semana = 1 /\ df.rows[2].Semana = 1
    /\ df.rows[1].Venda = 10 /\ df.rows[2].Venda = 5
    /\ weekly.index = <<1>>
    /\ weekly.data["Venda"] = <<15>>

\* C2: once weekly is computed, it has exactly one row per distinct week of
\* the input, and its rows are in strictly ascending order of week.
C2_OneRowPerWeekAscending ==
    Did("weekly") =>
        /\ Len(weekly.index) = Cardinality(WeeksIn(df.rows))
        /\ {weekly.index[j] : j \in 1..Len(weekly.index)} = WeeksIn(df.rows)
        /\ \A j, k \in 1..Len(weekly.index) : j < k => weekly.index[j] < weekly.index[k]
        /\ \A m \in MetricSet : Len(weekly.data[m]) = Len(weekly.index)

\* C2 witness: week 2 came before week 1 in the input and weekly lists 1, 2.
C2_Witness ==
    /\ Did("weekly")
    /\ Len(df.rows) = 2
    /\ df.rows[1].Semana = 2 /\ df.rows[2].Semana = 1
    /\ weekly.index = <<1, 2>>

\* C3: when plot_projections is given a table that lacks the week column or a
\* metric column, it raises KeyError and the file at the output path is as it
\* was before the run.
C3_MissingColumnNoFile ==
    (Did("plot_projections") /\ ~(RequiredColumns \subseteq df.columns)) =>
        /\ pc = "exited"
        /\ error = "KeyError"
        /\ ~touched
        /\ outFile = startFile

\* C3 witness: the week column is missing, the run ended in KeyError, and the
\* file that was at the output path is still there.
C3_Witness ==
    /\ pc = "exited"
    /\ error = "KeyError"
    /\ "Semana" \notin df.columns
    /\ startFile = OldFile
    /\ outFile = OldFile

\* C4: when the input path does not exist, load_dataset raises
\* FileNotFoundError, plot_projections is not called, and the output path and
\* the directories are as before the run.
C4_MissingInputNoPlot ==
    (~input.exists /\ pc \notin {"main", "load"}) =>
        /\ pc = "exited"
        /\ error = "FileNotFoundError"
        /\ ~Did("plot_projections")
        /\ ~touched
        /\ outFile = startFile
        /\ dirs = startDirs

\* C4 witness: a run on a missing input has ended, the output directory is
\* still missing.
C4_Witness ==
    /\ ~input.exists
    /\ pc = "exited"
    /\ error = "FileNotFoundError"
    /\ output = DefaultOutput
    /\ AbsPath(OutputDir) \notin dirs

\* C5 as stated: when a metric column is absent or holds non-numeric values,
\* plot_projections ends in an error without an aggregated table, a figure or
\* a write.
C5_NumericOrFail ==
    (Did("plot_projections")
        /\ (~(MetricSet \subseteq df.columns) \/ df.object \cap MetricSet # {})) =>
        /\ pc = "exited"
        /\ error # "none"
        /\ ~Did("weekly")
        /\ fig = <<>>
        /\ ~touched

\* C5 amended: when a metric column is absent, plot_projections raises
\* KeyError before weekly exists, and nothing is drawn or written.
C5_AbsentMetricFails ==
    (Did("plot_projections") /\ ~(MetricSet \subseteq df.columns)) =>
        /\ pc = "exited"
        /\ error = "KeyError"
        /\ weekly = NoWeekly
        /\ ~Did("weekly")
        /\ fig = <<>>
        /\ ~touched
        /\ outFile = startFile

\* C5 witness: the Alvo column is absent and the run ended in KeyError.
C5_Witness ==
    /\ Did("plot_projections")
    /\ "Alvo" \notin df.columns
    /\ "Semana" \in df.columns
    /\ pc = "exited"
    /\ error = "KeyError"

\* C6: a run that has ended either succeeded and left all four charts at the
\* output path, or failed and left no chart output of its own there; no
\* statement ran twice apart from the four turns of the loop.
C6_AllOrNothing ==
    pc = "exited" =>
        /\ \/ /\ error = "none"
              /\ status = 0
              /\ outFile = [kind |-> "png", grid |-> Render(fig)]
              /\ \A j \in 1..Len(METRICS) :
                    /\ Len(fig[j].lines) = 1
                    /\ fig[j].title = TITLES[j]
           \/ /\ error # "none"
              /\ status # 0
              /\ ~(touched /\ outFile.grid # <<>>)
        /\ \A j, k \in 1..Len(events) :
              (j # k /\ events[j] = events[k]) => events[j] = "plot"

\* C7: the success message, with the absolute output path, is printed once,
\* after the load, the aggregation and the write, by a run that exits with
\* status 0; a run that ends in an error exits with a non-zero status and
\* prints nothing.
C7_MessageOnlyOnSuccess ==
    /\ stdout # <<>> =>
          /\ Len(stdout) = 1
          /\ stdout[1].path.anchor = "/"
          /\ stdout[1].path.parts = Append(OutputDir, output.parts[Len(output.parts)])
          /\ Did("load_dataset") /\ Did("weekly") /\ Did("savefig")
          /\ outFile.kind = "png"
          /\ error = "none"
    /\ pc = "exited" =>
          \/ error = "none" /\ status = 0 /\ stdout # <<>>
          \/ error # "none" /\ status # 0 /\ stdout = <<>>

\* C7 witness: a run given a relative output path has printed and exited.
C7_Witness ==
    /\ pc = "exited"
    /\ error = "none"
    /\ status = 0
    /\ output.anchor = ""
    /\ Len(stdout) = 1

\* C8: once mkdir has returned, every directory down to the output directory
\* exists and none was removed; the file is only written after mkdir; and
\* mkdir does not fail when the output directory is already there.
C8_ParentsMadeBeforeWrite ==
    /\ Did("mkdir") =>
          /\ \A n \in 0..Len(OutputDir) : AbsPath(SubSeq(OutputDir, 1, n)) \in dirs
          /\ startDirs \subseteq dirs
    /\ touched => Did("mkdir")
    /\ (pc = "exited" /\ Did("tight_layout") /\ ~Did("mkdir")) =>
          AbsPath(OutputDir) \notin startDirs

\* C8 witness: two directories were missing, the run made both and wrote the
\* file.
C8_Witness ==
    /\ pc = "exited"
    /\ error = "none"
    /\ Cardinality(dirs \ startDirs) = 2
    /\ outFile.kind = "png"

\* C9: load_dataset calls read_csv exactly for the names whose extension is
\* .csv in any letter case and read_excel for every other name, and a file
\* that exists and holds the format of the reader called is loaded.
C9_DispatchOnExtension ==
    reader # "none" =>
        /\ input.name \in {<<"d", ".", "c", "s", "v">>, <<"D", ".", "C", "S", "V">>}
              => reader = "read_csv"
        /\ input.name \in {<<"d", ".", "x", "l", "s", "x">>, <<"d", ".", "t", "x", "t">>,
                           <<"d">>, <<".", "c", "s", "v">>}
              => reader = "read_excel"
        /\ (input.exists /\ ((reader = "read_csv") <=> (input.format = "csv")))
              => Did("load_dataset")

\* C9 witness: a .txt file holding a spreadsheet was loaded by read_excel.
C9_Witness ==
    /\ input.name = <<"d", ".", "t", "x", "t">>
    /\ reader = "read_excel"
    /\ Did("load_dataset")

\* C10: when a run succeeds after a run that succeeded on the same arguments,
\* the output file holds what it held after the first of the two.
C10_Idempotent ==
    (pc = "exited" /\ error = "none" /\ prev.ran /\ prev.error = "none") =>
        /\ outFile.kind = "png"
        /\ outFile = prev.file

\* C10 witness: the second run succeeded over the file the first had written.
C10_Witness ==
    /\ pc = "exited"
    /\ error = "none"
    /\ run = 2
    /\ prev.ran
    /\ prev.error = "none"
    /\ startFile.kind = "png"
    /\ Len(weekly.index) > 0

====
